---- MODULE Spec2Model ----
(***************************************************************************)
(* Submission engine of the backend submitter module:                      *)
(*   SubmitterService   (submitter.service.ts)                             *)
(*   SubmissionProcessor (submission.processor.ts)                         *)
(*   StellarService     (stellar.service.ts), the ledger client            *)
(*   Submission entity  (entities/submission.entity.ts)                    *)
(* The store is the submissions table, the queue is the Bull queue         *)
(* 'submissions'.  Every await of the code is a point where other calls    *)
(* and other job handlers may run, so each handler is split at its awaits. *)
(***************************************************************************)
EXTENDS Integers, Sequences, FiniteSets, TLC

\* ------------------------------------------------------------------ bounds
MaxCalls == 2           \* service calls (createSubmission / createBatch) per run
MaxBatch == 2           \* requests in one createBatch call
MaxDeliveries == 2      \* job deliveries (handler invocations) per run of Spec
MaxWorkers == 2         \* job handlers running at the same time
MaxProcessorDeliveries == 4  \* job deliveries per run of SpecProcessor
MaxReads == 2           \* read calls (getSubmission / getByIdempotencyKey) per run
MaxRunDeliveries == 2   \* job deliveries per run of SpecBatchRun
MaxFaultDeliveries == 2  \* job deliveries per run of SpecFaults

\* --------------------------------------------------------- program constants
DefaultRetryCount == 0  \* @Column({ default: 0 }) retryCount
DefaultMaxRetries == 3  \* @Column({ default: 3 }) maxRetries
DefaultAttempts   == 1  \* queue.add(name, data) without options: one attempt
BackoffBase       == 2  \* Math.pow(2, retryCount)
BackoffUnitMs     == 1000
ListLimit         == 100

Keys == {"k1", "k2"}
EmptyKey == ""

\* SubmissionStatus enum
PENDING    == "pending"
PROCESSING == "processing"
COMPLETED  == "completed"
FAILED     == "failed"
RETRYING   == "retrying"
SubmissionStatus == {PENDING, PROCESSING, COMPLETED, FAILED, RETRYING}

NoHash  == 0            \* transactionHash IS NULL
NoError == "null"       \* errorMessage IS NULL
LedgerError == "ledger error"
StoreError  == "store error"
BatchError  == "Batch submission failed"

VARIABLES
    store,          \* submissions table: store[i] is the row with id i
    queue,          \* jobs of the 'submissions' queue, in the order they were added
    calls,          \* invocations of the service (one entry per call)
    handlers,       \* running job handlers of the processor, by delivery number
    budget,         \* job deliveries the run may still make
    ledgerOk,       \* ledgerOk[i]: successful ledger submissions of row i's payload
    ledgerFail      \* ledgerFail[i]: failed single-item ledger submissions for row i

vars == <<store, queue, calls, handlers, budget, ledgerOk, ledgerFail>>

\* ------------------------------------------------------------------ helpers
RECURSIVE SumSeq(_)
SumSeq(s) == IF s = <<>> THEN 0 ELSE Head(s) + SumSeq(Tail(s))

Ids == 1..Len(store)

\* repository.findOne({ where: { idempotencyKey } }): ids of the matching rows
FindByKey(key) == {i \in Ids : store[i].idempotencyKey = key}

\* a fresh transaction hash: the ledger never hands out the same hash twice
FreshHash == SumSeq(ledgerOk) + 1

\* CreateSubmissionDto.  The payload is an opaque document the engine never looks
\* into: it is modelled by the request that brought it (call c, position i), so
\* any two requests carry different payloads.
Dto(key, c, i) == [idempotencyKey |-> key, payload |-> <<c, i>>]
Requests(c, keys) == [i \in 1..Len(keys) |-> Dto(keys[i], c, i)]

\* the entity with the default of retryCount given to maxRetries as well
NewSubmissionSwappedDefault(id, dto) ==
    [id |-> id,
     idempotencyKey |-> dto.idempotencyKey,
     payload |-> dto.payload,
     status |-> PENDING,
     transactionHash |-> NoHash,
     retryCount |-> DefaultRetryCount,
     maxRetries |-> DefaultRetryCount,
     errorMessage |-> NoError,
     completedAt |-> FALSE]

\* the entity built by repository.create(...) and completed by the column defaults
NewSubmission(id, dto) ==
    [id |-> id,
     idempotencyKey |-> dto.idempotencyKey,
     payload |-> dto.payload,
     status |-> PENDING,
     transactionHash |-> NoHash,
     retryCount |-> DefaultRetryCount,
     maxRetries |-> DefaultMaxRetries,
     errorMessage |-> NoError,
     completedAt |-> FALSE]

\* the table without the unique index: every insert is accepted
UniqueKeyFreeNoIndex(key) == TRUE

\* the unique index on idempotencyKey: may a row with this key be inserted?
UniqueKeyFree(key) == FindByKey(key) = {}

EmptyHandlers == [h \in {} |-> 0]

Init ==
    /\ store = <<>>
    /\ queue = <<>>
    /\ calls = <<>>
    /\ handlers = EmptyHandlers
    /\ budget = MaxDeliveries
    /\ ledgerOk = <<>>
    /\ ledgerFail = <<>>

\* ---- SubmitterService
\* A call is at one of: "findOne" (the existence pre-check), "save" (the insert),
\* "add" (queue.add 'submit-single'), "addBatch" (queue.add 'submit-batch'), "done".
NewCall(op, dtos) ==
    [op |-> op, dtos |-> dtos, idx |-> 1,
     pc |-> IF dtos = <<>> THEN "addBatch" ELSE "findOne",
     submissions |-> <<>>, outcome |-> "none", arg |-> <<>>]

\* the create calls and the read calls made so far
Count(ops) == Cardinality({c \in 1..Len(calls) : calls[c].op \in ops})
Creates == Count({"createSubmission", "createBatch"})
ReadsMade == Count({"getSubmission", "getByIdempotencyKey", "listSubmissions"})

StartCreateSubmission(key) ==
    /\ Creates < MaxCalls
    /\ calls' = Append(calls, NewCall("createSubmission", Requests(Len(calls) + 1, <<key>>)))
    /\ UNCHANGED <<store, queue, handlers, budget, ledgerOk, ledgerFail>>

StartCreateBatch(keys) ==
    /\ Creates < MaxCalls
    /\ calls' = Append(calls, NewCall("createBatch", Requests(Len(calls) + 1, keys)))
    /\ UNCHANGED <<store, queue, handlers, budget, ledgerOk, ledgerFail>>

\* createSubmission lines 21-29: the pre-check; an existing row throws ConflictException
\* (the exception carries a message only), which also ends an enclosing createBatch.
CreateFindOne(c) ==
    /\ calls[c].pc = "findOne"
    /\ LET dto == calls[c].dtos[calls[c].idx]
       IN  calls' = [calls EXCEPT ![c] =
               IF FindByKey(dto.idempotencyKey) # {}
               THEN [@ EXCEPT !.pc = "done", !.outcome = "ConflictException",
                              !.submissions = <<>>]
               ELSE [@ EXCEPT !.pc = "save"]]
    /\ UNCHANGED <<store, queue, handlers, budget, ledgerOk, ledgerFail>>

\* the insert not done by the time the call goes on to queue.add
CreateSaveNotAwaited(c) ==
    /\ calls[c].pc = "save"
    /\ LET dto == calls[c].dtos[calls[c].idx]
           sub == NewSubmission(Len(store) + 1, dto)
       IN  calls' = [calls EXCEPT ![c].pc = "add", ![c].submissions = Append(@, sub)]
    /\ UNCHANGED <<store, ledgerOk, ledgerFail, queue, handlers, budget>>

\* createSubmission lines 32-38: the insert; the unique index rejects a second row
\* with the same key and that error (QueryFailedError) is not caught.
CreateSave(c) ==
    /\ calls[c].pc = "save"
    /\ LET dto == calls[c].dtos[calls[c].idx]
           sub == NewSubmission(Len(store) + 1, dto)
       IN  IF UniqueKeyFree(dto.idempotencyKey)
           THEN /\ store' = Append(store, sub)
                /\ ledgerOk' = Append(ledgerOk, 0)
                /\ ledgerFail' = Append(ledgerFail, 0)
                /\ calls' = [calls EXCEPT ![c].pc = "add",
                                          ![c].submissions = Append(@, sub)]
           ELSE /\ calls' = [calls EXCEPT ![c].pc = "done",
                                          ![c].outcome = "QueryFailedError",
                                          ![c].submissions = <<>>]
                /\ UNCHANGED <<store, ledgerOk, ledgerFail>>
    /\ UNCHANGED <<queue, handlers, budget>>

\* what a thrown Error tells the queue (the job's failedReason)
NoReason == [text |-> "none", delay |-> 0]
Thrown(text, delay) == [text |-> text, delay |-> delay]

\* the job options given to queue.add: both calls pass the name and the data only,
\* and registerQueue sets no defaultJobOptions, so attempts is Bull's default
AddOptions == {}

NewJob(name, ids) ==
    [name |-> name, ids |-> ids, state |-> "waiting", attemptsMade |-> 0,
     attempts |-> DefaultAttempts, owner |-> 0, failedReason |-> NoReason,
     opts |-> AddOptions]

\* createSubmission submitting to the ledger itself before it returns
CreateAddSubmitting(c) ==
    /\ calls[c].pc = "add"
    /\ LET sub == calls[c].submissions[Len(calls[c].submissions)]
       IN  /\ queue' = Append(queue, NewJob("submit-single", <<sub.id>>))
           /\ ledgerOk' = [ledgerOk EXCEPT ![sub.id] = @ + 1]
    /\ calls' = [calls EXCEPT ![c] =
           IF @.op = "createSubmission"
           THEN [@ EXCEPT !.pc = "done", !.outcome = "returned"]
           ELSE IF @.idx < Len(@.dtos)
                THEN [@ EXCEPT !.pc = "findOne", !.idx = @ + 1]
                ELSE [@ EXCEPT !.pc = "addBatch"]]
    /\ UNCHANGED <<store, handlers, budget, ledgerFail>>

\* createSubmission lines 41-45: queue.add('submit-single'), then return; inside
\* createBatch the loop goes on with the next request or reaches the batch enqueue.
CreateAdd(c) ==
    /\ calls[c].pc = "add"
    /\ LET sub == calls[c].submissions[Len(calls[c].submissions)]
       IN  queue' = Append(queue, NewJob("submit-single", <<sub.id>>))
    /\ calls' = [calls EXCEPT ![c] =
           IF @.op = "createSubmission"
           THEN [@ EXCEPT !.pc = "done", !.outcome = "returned"]
           ELSE IF @.idx < Len(@.dtos)
                THEN [@ EXCEPT !.pc = "findOne", !.idx = @ + 1]
                ELSE [@ EXCEPT !.pc = "addBatch"]]
    /\ UNCHANGED <<store, handlers, budget, ledgerOk, ledgerFail>>

\* createBatch lines 82-86
CreateAddBatch(c) ==
    /\ calls[c].pc = "addBatch"
    /\ queue' = Append(queue, NewJob("submit-batch",
                    [i \in 1..Len(calls[c].submissions) |-> calls[c].submissions[i].id]))
    /\ calls' = [calls EXCEPT ![c].pc = "done", ![c].outcome = "returned"]
    /\ UNCHANGED <<store, handlers, budget, ledgerOk, ledgerFail>>

Service ==
    \/ \E key \in Keys : StartCreateSubmission(key)
    \/ \E n \in 0..MaxBatch : \E keys \in [1..n -> Keys] : StartCreateBatch(keys)
    \/ \E c \in 1..Len(calls) : CreateFindOne(c)
    \/ \E c \in 1..Len(calls) : CreateSave(c)
    \/ \E c \in 1..Len(calls) : CreateAdd(c)
    \/ \E c \in 1..Len(calls) : CreateAddBatch(c)

\* ---- SubmitterService: the reads
\* A read is one query and a return or throw: a call that is done when it appears,
\* with its argument in arg and what it returned in submissions (<<>> is null).
ReadCall(op, arg, outcome, found) ==
    [NewCall(op, <<>>) EXCEPT !.pc = "done", !.arg = <<arg>>,
                              !.outcome = outcome, !.submissions = found]

\* lines 49-51: findOne({ where: { id } }): the row or null
FindById(id) == IF id \in Ids THEN <<store[id]>> ELSE <<>>

\* getSubmission without the check of lines 53-55
GetSubmissionOutcomeNoCheck(found) == "returned"

\* lines 53-57: if (!submission) throw new NotFoundException; return submission
GetSubmissionOutcome(found) == IF found = <<>> THEN "NotFoundException" ELSE "returned"

\* getSubmission re-enqueueing the row it found Pending
GetSubmissionRequeues(id) ==
    /\ ReadsMade < MaxReads
    /\ calls' = Append(calls, ReadCall("getSubmission", id,
                                       GetSubmissionOutcome(FindById(id)), FindById(id)))
    /\ queue' = IF id \in Ids /\ store[id].status = PENDING
                THEN Append(queue, NewJob("submit-single", <<id>>))
                ELSE queue
    /\ UNCHANGED <<store, handlers, budget, ledgerOk, ledgerFail>>

\* getSubmission lines 48-58
GetSubmission(id) ==
    /\ ReadsMade < MaxReads
    /\ calls' = Append(calls, ReadCall("getSubmission", id,
                                       GetSubmissionOutcome(FindById(id)), FindById(id)))
    /\ UNCHANGED <<store, queue, handlers, budget, ledgerOk, ledgerFail>>

\* lines 61-63: findOne({ where: { idempotencyKey: key } }): the row or null
FindOneByKey(key) ==
    IF FindByKey(key) = {} THEN <<>> ELSE <<store[CHOOSE i \in FindByKey(key) : TRUE]>>

\* getByIdempotencyKey lines 60-64: the result of findOne is returned as it is
GetByIdempotencyKey(key) ==
    /\ ReadsMade < MaxReads
    /\ calls' = Append(calls, ReadCall("getByIdempotencyKey", key,
                                       "returned", FindOneByKey(key)))
    /\ UNCHANGED <<store, queue, handlers, budget, ledgerOk, ledgerFail>>

\* repository.find(options): the rows with the ids given, each once, in an order the
\* query does not fix (no order option), cut to the first take rows
Find(ids, take) ==
    {[k \in 1..(IF Cardinality(ids) <= take THEN Cardinality(ids) ELSE take) |-> store[o[k]]] :
        o \in {p \in [1..Cardinality(ids) -> ids] :
                  \A a, b \in 1..Cardinality(ids) : a # b => p[a] # p[b]}}

\* listSubmissions called without a status
NoStatus == "undefined"

\* listSubmissions lines 66-71: the rows with the status given, or, without a
\* status, the first 100 rows
ListSubmissions(status) ==
    /\ ReadsMade < MaxReads
    /\ \E found \in IF status # NoStatus
                     THEN Find({i \in Ids : store[i].status = status}, Len(store))
                     ELSE Find(Ids, ListLimit) :
           calls' = Append(calls, ReadCall("listSubmissions", status, "returned", found))
    /\ UNCHANGED <<store, queue, handlers, budget, ledgerOk, ledgerFail>>

\* an id of a stored row or the first id that is not stored; a stored or unused key;
\* a status or none
Reads ==
    \/ \E id \in 1..(Len(store) + 1) : GetSubmission(id)
    \/ \E key \in Keys : GetByIdempotencyKey(key)
    \/ \E status \in SubmissionStatus \cup {NoStatus} : ListSubmissions(status)

\* ---- the queue
\* Bull hands a waiting job to a worker (at-least-once): the job becomes active and
\* the handler registered with @Process(name) is invoked with it.
SetJob(j, state, owner) == [queue EXCEPT ![j].state = state, ![j].owner = owner]

\* A handler invocation; sub / subs are the entities it loaded (its private copies).
NewHandler(j, pc, subs) ==
    [job |-> j, pc |-> pc, subs |-> subs, txHashes |-> <<>>, i |-> 1, error |-> NoError]

\* deliveries are numbered by the budget left when they start
NextDelivery == budget
Running == DOMAIN handlers
Start(handler) == [h \in Running \cup {NextDelivery} |->
                      IF h = NextDelivery THEN handler ELSE handlers[h]]
\* a handler that returned or threw is gone, with its private copies
Finish(h) == [x \in Running \ {h} |-> handlers[x]]

\* the delivery still holds the lock of its job
HoldsLock(h) == queue[handlers[h].job].owner = h /\ queue[handlers[h].job].state = "active"

\* the handler threw: the queue counts the attempt, keeps the error as the job's
\* failedReason and, with no attempt left, moves the job to failed; it records
\* this only for the delivery that still holds the job's lock
Fail(h, reason) ==
    LET j == handlers[h].job
    IN  IF HoldsLock(h)
        THEN [queue EXCEPT ![j].attemptsMade = @ + 1,
                           ![j].failedReason = reason,
                           ![j].state = IF queue[j].attemptsMade + 1 < queue[j].attempts
                                        THEN "waiting" ELSE "failed"]
        ELSE queue

\* the handler returned (result "completed") or threw (result "failed")
Settle(h, result) ==
    IF result = "failed"
    THEN Fail(h, NoReason)
    ELSE IF HoldsLock(h)
         THEN [queue EXCEPT ![handlers[h].job].state = "completed"]
         ELSE queue

\* a job whose worker stalled is put back in the waiting list while the first
\* handler may still be running (duplicate delivery under at-least-once)
Stall(j) ==
    /\ queue[j].state = "active"
    /\ budget > 0
    /\ queue' = SetJob(j, "waiting", 0)
    /\ UNCHANGED <<store, calls, handlers, budget, ledgerOk, ledgerFail>>

\* ---- SubmissionProcessor
\* handleSingleSubmission lines 21-31: findOne by id; an unknown id is logged and the
\* handler returns.
\* lines 28-31: no row for the job's id: log it and return
MissingRowThrows(j) == [SetJob(j, "failed", NextDelivery) EXCEPT ![j].attemptsMade = @ + 1]

MissingRow(j) == SetJob(j, "completed", NextDelivery)

DeliverSingle(j) ==
    /\ queue[j].state = "waiting"
    /\ queue[j].name = "submit-single"
    /\ budget > 0
    /\ Cardinality(Running) < MaxWorkers
    /\ budget' = budget - 1
    /\ LET id == queue[j].ids[1]
       IN  IF id \in Ids
           THEN /\ handlers' = Start(NewHandler(j, "saveProcessing", <<store[id]>>))
                /\ queue' = SetJob(j, "active", NextDelivery)
           ELSE /\ UNCHANGED handlers
                /\ queue' = MissingRow(j)
    /\ UNCHANGED <<store, calls, ledgerOk, ledgerFail>>

\* a save that writes the row without the entity's payload
SaveWithoutPayload(sub) == [store EXCEPT ![sub.id] = [sub EXCEPT !.payload = <<>>]]

\* repository.save(entity) of a loaded entity: the row takes the entity's values
Save(sub) == [store EXCEPT ![sub.id] = sub]

\* the handler going on to the ledger with PROCESSING set on its entity only
SingleSaveProcessingUnsaved(h) ==
    /\ handlers[h].pc = "saveProcessing"
    /\ LET sub == [handlers[h].subs[1] EXCEPT !.status = PROCESSING]
       IN  handlers' = [handlers EXCEPT ![h].subs = <<sub>>, ![h].pc = "submit"]
    /\ UNCHANGED <<store, queue, calls, budget, ledgerOk, ledgerFail>>

\* lines 33-35: status = PROCESSING; save
SingleSaveProcessing(h) ==
    /\ handlers[h].pc = "saveProcessing"
    /\ LET sub == [handlers[h].subs[1] EXCEPT !.status = PROCESSING]
       IN  /\ store' = Save(sub)
           /\ handlers' = [handlers EXCEPT ![h].subs = <<sub>>, ![h].pc = "submit"]
    /\ UNCHANGED <<queue, calls, budget, ledgerOk, ledgerFail>>

\* lines 37-40: stellarService.submitTransaction(payload) resolves with a hash
SingleSubmitOk(h) ==
    /\ handlers[h].pc = "submit"
    /\ LET id == handlers[h].subs[1].id
       IN  /\ handlers' = [handlers EXCEPT ![h].txHashes = <<FreshHash>>,
                                           ![h].pc = "saveCompleted"]
           /\ ledgerOk' = [ledgerOk EXCEPT ![id] = @ + 1]
    /\ UNCHANGED <<store, queue, calls, budget, ledgerFail>>

\* lines 37-40: stellarService.submitTransaction(payload) rejects
SingleSubmitFail(h) ==
    /\ handlers[h].pc = "submit"
    /\ LET id == handlers[h].subs[1].id
       IN  /\ handlers' = [handlers EXCEPT ![h].pc = "catch", ![h].error = LedgerError]
           /\ ledgerFail' = [ledgerFail EXCEPT ![id] = @ + 1]
    /\ UNCHANGED <<store, queue, calls, budget, ledgerOk>>

\* lines 42-46: COMPLETED, transactionHash, completedAt; save; return
SingleSaveCompleted(h) ==
    /\ handlers[h].pc = "saveCompleted"
    /\ LET sub == [handlers[h].subs[1] EXCEPT !.status = COMPLETED,
                                               !.transactionHash = handlers[h].txHashes[1],
                                               !.completedAt = TRUE]
       IN  /\ store' = Save(sub)
           /\ handlers' = Finish(h)
    /\ queue' = Settle(h, "completed")
    /\ UNCHANGED <<calls, budget, ledgerOk, ledgerFail>>

\* Math.pow(2, retryCount) * 1000
RECURSIVE Pow(_, _)
Pow(b, e) == IF e = 0 THEN 1 ELSE b * Pow(b, e - 1)
\* a linear backoff: 2 * retryCount * 1000
BackoffDelayLinear(retryCount) == BackoffBase * retryCount * BackoffUnitMs

BackoffDelay(retryCount) == Pow(BackoffBase, retryCount) * BackoffUnitMs

\* the entity as the catch block leaves it (lines 52-61); error is what was caught
Failure(sub, error) ==
    LET n == sub.retryCount + 1
    IN  [sub EXCEPT !.retryCount = n,
                    !.errorMessage = error,
                    !.status = IF n >= sub.maxRetries THEN FAILED ELSE RETRYING]

\* the catch block saving on both branches
CatchSavesAlways(sub) == TRUE

\* does the catch block reach its save (line 65)?  The retry branch throws at line 62,
\* before the save.
CatchSaves(sub) == sub.status = FAILED

\* line 62: throw new Error(`Retry needed with delay ${delay}ms`)
RetryNeeded(sub) == Thrown("Retry needed with delay", BackoffDelay(sub.retryCount))

\* lines 49-66: the catch block
SingleCatch(h) ==
    /\ handlers[h].pc = "catch"
    /\ LET sub == Failure(handlers[h].subs[1], handlers[h].error)
       IN  /\ handlers' = Finish(h)
           /\ IF CatchSaves(sub)
              THEN /\ store' = Save(sub)
                   /\ queue' = Settle(h, "completed")
              ELSE /\ UNCHANGED store
                   /\ queue' = Fail(h, RetryNeeded(sub))
    /\ UNCHANGED <<calls, budget, ledgerOk, ledgerFail>>

\* ------------------------------------------------------------ submit-batch
\* repository.findByIds(ids): the rows whose id is listed, each once, in an order
\* the query does not fix (SELECT ... WHERE id IN (...) without ORDER BY)
FindByIds(ids) ==
    LET found == {ids[k] : k \in 1..Len(ids)} \cap Ids
    IN  {o \in [1..Cardinality(found) -> found] :
            \A a, b \in 1..Cardinality(found) : a # b => o[a] # o[b]}

\* handleBatchSubmission lines 70-75: load the rows, take their payloads
DeliverBatch(j) ==
    /\ queue[j].state = "waiting"
    /\ queue[j].name = "submit-batch"
    /\ budget > 0
    /\ Cardinality(Running) < MaxWorkers
    /\ budget' = budget - 1
    /\ \E order \in FindByIds(queue[j].ids) :
           handlers' = Start(
               NewHandler(j, "submitBatch", [k \in 1..Len(order) |-> store[order[k]]]))
    /\ queue' = SetJob(j, "active", NextDelivery)
    /\ UNCHANGED <<store, calls, ledgerOk, ledgerFail>>

\* StellarService.submitBatch lines 69-83: one submitTransaction per payload, in
\* order; a rejected one is caught and leaves null at its position.  ok[k] tells
\* whether the k-th submission is accepted by the ledger.
BatchHashes(ok) ==
    [k \in 1..Len(ok) |->
        IF ok[k] THEN FreshHash + Cardinality({m \in 1..(k - 1) : ok[m]}) ELSE NoHash]

\* successful ledger submissions counted per row
CountOk(subs, ok) ==
    [id \in Ids |-> ledgerOk[id] + Cardinality({k \in 1..Len(subs) : subs[k].id = id /\ ok[k]})]

\* the update loop treating a null hash as the single handler treats a failure
BatchOutcomeRetries(sub, txHash) ==
    IF txHash # NoHash
    THEN [sub EXCEPT !.status = COMPLETED, !.transactionHash = txHash, !.completedAt = TRUE]
    ELSE [sub EXCEPT !.status = RETRYING, !.retryCount = @ + 1, !.errorMessage = BatchError]

\* the update loop failing a row without a message
BatchOutcomeNoMessage(sub, txHash) ==
    IF txHash # NoHash
    THEN [sub EXCEPT !.status = COMPLETED, !.transactionHash = txHash, !.completedAt = TRUE]
    ELSE [sub EXCEPT !.status = FAILED]

\* the entity as one turn of the update loop leaves it (lines 82-92)
BatchOutcome(sub, txHash) ==
    IF txHash # NoHash
    THEN [sub EXCEPT !.status = COMPLETED, !.transactionHash = txHash, !.completedAt = TRUE]
    ELSE [sub EXCEPT !.status = FAILED, !.errorMessage = BatchError]

\* line 78: await stellarService.submitBatch(payloads); with no row to update the
\* loop is skipped and the handler returns
BatchSubmit(h) ==
    /\ handlers[h].pc = "submitBatch"
    /\ \E ok \in [1..Len(handlers[h].subs) -> BOOLEAN] :
           /\ ledgerOk' = CountOk(handlers[h].subs, ok)
           /\ IF Len(ok) = 0
              THEN /\ handlers' = Finish(h)
                   /\ queue' = Settle(h, "completed")
              ELSE /\ handlers' = [handlers EXCEPT ![h].txHashes = BatchHashes(ok),
                                                   ![h].pc = "update"]
                   /\ UNCHANGED queue
    /\ UNCHANGED <<store, calls, budget, ledgerFail>>

\* lines 81-97: one turn of the update loop (ending at its save); after the last
\* turn the handler returns
BatchUpdate(h) ==
    /\ handlers[h].pc = "update"
    /\ LET i   == handlers[h].i
           sub == BatchOutcome(handlers[h].subs[i], handlers[h].txHashes[i])
           last == i = Len(handlers[h].subs)
       IN  /\ store' = Save(sub)
           /\ handlers' = IF last THEN Finish(h)
                          ELSE [handlers EXCEPT ![h].subs[i] = sub, ![h].i = i + 1]
           /\ queue' = IF last THEN Settle(h, "completed") ELSE queue
    /\ UNCHANGED <<calls, budget, ledgerOk, ledgerFail>>

\* lines 98-101: submitBatch rejected as a whole; the catch block logs and rethrows
\* with no row written. The handler is written against a ledger client that may
\* reject; StellarService.submitBatch itself turns every per-item error into null.
BatchSubmitRaisesSwallowed(h) ==
    /\ handlers[h].pc = "submitBatch"
    /\ handlers[h].subs # <<>>
    /\ handlers' = Finish(h)
    /\ queue' = Settle(h, "completed")
    /\ UNCHANGED <<store, calls, budget, ledgerOk, ledgerFail>>

BatchSubmitRaises(h) ==
    /\ handlers[h].pc = "submitBatch"
    /\ handlers[h].subs # <<>>
    /\ handlers' = Finish(h)
    /\ queue' = Fail(h, Thrown(LedgerError, 0))
    /\ UNCHANGED <<store, calls, budget, ledgerOk, ledgerFail>>

Processor ==
    \/ \E j \in 1..Len(queue) : Stall(j)
    \/ \E j \in 1..Len(queue) : DeliverSingle(j)
    \/ \E h \in Running : SingleSaveProcessing(h)
    \/ \E h \in Running : SingleSubmitOk(h)
    \/ \E h \in Running : SingleSubmitFail(h)
    \/ \E h \in Running : SingleSaveCompleted(h)
    \/ \E h \in Running : SingleCatch(h)
    \/ \E j \in 1..Len(queue) : DeliverBatch(j)
    \/ \E h \in Running : BatchSubmit(h)
    \/ \E h \in Running : BatchUpdate(h)


Next == Service \/ Processor

\* the whole engine: service calls, the queue and the processor, all interleaved
Spec == Init /\ [][Next]_vars

\* the service alone: concurrent createSubmission / createBatch calls
SpecService == Init /\ [][Service]_vars

\* The processor alone, started in the state that createBatch([k1]) leaves when it
\* returns: one Pending row, its submit-single job and the submit-batch job, both
\* waiting.
CreatedBatch ==
    LET dtos == Requests(1, <<"k1">>)
        subs == [i \in 1..1 |-> NewSubmission(i, dtos[i])]
    IN  /\ store = subs
        /\ queue = <<NewJob("submit-single", <<1>>), NewJob("submit-batch", <<1>>)>>
        /\ calls = <<[NewCall("createBatch", dtos) EXCEPT !.pc = "done",
                          !.submissions = subs, !.outcome = "returned"]>>
        /\ handlers = EmptyHandlers
        /\ ledgerOk = <<0>>
        /\ ledgerFail = <<0>>

InitProcessor == CreatedBatch /\ budget = MaxProcessorDeliveries

SpecProcessor == InitProcessor /\ [][Processor]_vars

\* The reads beside a create call: started in the state in which createBatch([k1, k2])
\* has just been called, so that reads see the store before, between and after its
\* two inserts.
CalledBatch ==
    /\ store = <<>>
    /\ queue = <<>>
    /\ calls = <<NewCall("createBatch", Requests(1, <<"k1", "k2">>))>>
    /\ handlers = EmptyHandlers
    /\ ledgerOk = <<>>
    /\ ledgerFail = <<>>

InitReads == CalledBatch /\ budget = MaxDeliveries

\* the steps of the create calls under way
CreateSteps ==
    \/ \E c \in 1..Len(calls) : CreateFindOne(c)
    \/ \E c \in 1..Len(calls) : CreateSave(c)
    \/ \E c \in 1..Len(calls) : CreateAdd(c)
    \/ \E c \in 1..Len(calls) : CreateAddBatch(c)

ServiceReads == CreateSteps \/ Reads

\* The service called with an empty idempotencyKey beside its other calls. The
\* service method takes the dto as it is given: @IsNotEmpty on the DTO is run by
\* the ValidationPipe of the HTTP boundary only.
ServiceEmptyKey == Service \/ StartCreateSubmission(EmptyKey)

SpecEmptyKey == Init /\ [][ServiceEmptyKey]_vars

SpecReads == InitReads /\ [][ServiceReads]_vars

\* One createBatch([k1, k2]) call from its start to the end of its jobs: the steps
\* of the call interleaved with the deliveries of the jobs it has enqueued so far.
InitBatchRun == CalledBatch /\ budget = MaxRunDeliveries

BatchRun == CreateSteps \/ Processor

SpecBatchRun == InitBatchRun /\ [][BatchRun]_vars


\* The processor facing its collaborators' failures, started in the state that
\* createBatch([k1, k2]) leaves when it returns, with one more submit-single job in
\* the queue whose row is not in the store (the queue outlives the rows: nothing
\* ties a job to its row). The ledger client may reject a whole batch.
CreatedPair ==
    LET dtos == Requests(1, <<"k1", "k2">>)
        subs == [i \in 1..2 |-> NewSubmission(i, dtos[i])]
    IN  /\ store = subs
        /\ queue = <<NewJob("submit-single", <<1>>), NewJob("submit-single", <<2>>),
                     NewJob("submit-batch", <<1, 2>>),
                     NewJob("submit-single", <<Len(subs) + 1>>)>>
        /\ calls = <<[NewCall("createBatch", dtos) EXCEPT !.pc = "done",
                          !.submissions = subs, !.outcome = "returned"]>>
        /\ handlers = EmptyHandlers
        /\ ledgerOk = <<0, 0>>
        /\ ledgerFail = <<0, 0>>

InitFaults == CreatedPair /\ budget = MaxFaultDeliveries

\* ---- the store rejecting a write
\* lines 34-35 inside the try block: status = PROCESSING is set on the entity, the
\* save rejects, and the catch block of line 49 takes the error
SingleSaveProcessingFails(h) ==
    /\ handlers[h].pc = "saveProcessing"
    /\ handlers' = [handlers EXCEPT ![h].subs[1].status = PROCESSING,
                                    ![h].pc = "catch", ![h].error = StoreError]
    /\ UNCHANGED <<store, queue, calls, budget, ledgerOk, ledgerFail>>

\* lines 43-46 inside the same try block: the ledger has accepted, the entity is
\* COMPLETED with its hash, the save rejects, and the catch block takes the error
SingleSaveCompletedFails(h) ==
    /\ handlers[h].pc = "saveCompleted"
    /\ handlers' = [handlers EXCEPT ![h].subs[1].status = COMPLETED,
                                    ![h].subs[1].transactionHash = handlers[h].txHashes[1],
                                    ![h].subs[1].completedAt = TRUE,
                                    ![h].pc = "catch", ![h].error = StoreError]
    /\ UNCHANGED <<store, queue, calls, budget, ledgerOk, ledgerFail>>

\* the batch handler taking a rejected save for done
BatchSaveFailsSwallowed(h) ==
    /\ handlers[h].pc = "update"
    /\ handlers' = Finish(h)
    /\ queue' = Settle(h, "completed")
    /\ UNCHANGED <<store, calls, budget, ledgerOk, ledgerFail>>

\* line 94 inside the try block of line 77: the save of one turn of the update loop
\* rejects; the catch block (lines 98-101) logs and rethrows, the loop is left
BatchSaveFails(h) ==
    /\ handlers[h].pc = "update"
    /\ handlers' = Finish(h)
    /\ queue' = Fail(h, Thrown(StoreError, 0))
    /\ UNCHANGED <<store, calls, budget, ledgerOk, ledgerFail>>

ProcessorFaults == Processor \/ \E h \in Running : BatchSubmitRaises(h)

SpecFaults == InitFaults /\ [][ProcessorFaults]_vars

\* The same with a store whose writes may fail (repository.save rejects): the saves
\* of the single handler's try block and the save of the batch update loop.
StoreFaults ==
    \/ \E h \in Running : SingleSaveProcessingFails(h)
    \/ \E h \in Running : SingleSaveCompletedFails(h)
    \/ \E h \in Running : BatchSaveFails(h)

ProcessorStoreFaults == ProcessorFaults \/ StoreFaults

SpecStoreFaults == InitFaults /\ [][ProcessorStoreFaults]_vars

\* ---- claims
Terminal == {COMPLETED, FAILED}
CallIds == 1..Len(calls)
JobIds == 1..Len(queue)
\* the key of the request a call is working on
Key(c) == calls[c].dtos[calls[c].idx].idempotencyKey
RowsWithKey(st, key) == {i \in 1..Len(st) : st[i].idempotencyKey = key}
\* a running handler holds a copy of row i
InFlight(i) == \E h \in Running : \E k \in 1..Len(handlers[h].subs) : handlers[h].subs[k].id = i
\* row i is named by a submit-batch job
InBatch(i) == \E j \in JobIds : queue[j].name = "submit-batch"
                                 /\ \E k \in 1..Len(queue[j].ids) : queue[j].ids[k] = i
Min(a, b) == IF a <= b THEN a ELSE b

\* C1: the ledger accepts the payload of a Submission at most once, whatever the
\* interleaving of service calls and job deliveries.
C1_ExactlyOnce == \A i \in Ids : ledgerOk[i] <= 1

\* C2: no two stored Submissions share an idempotencyKey.
C2_UniqueKeys ==
    \A i, k \in Ids : store[i].idempotencyKey = store[k].idempotencyKey => i = k

\* two calls raced on one key: both passed the pre-check, one insert was refused
C2_Witness ==
    \E c, d \in CallIds :
        /\ c # d
        /\ calls[c].outcome = "QueryFailedError"
        /\ calls[d].dtos # <<>>
        /\ Key(c) = Key(d)
        /\ Cardinality(RowsWithKey(store, Key(c))) = 1

\* C3: a createSubmission whose insert is refused by the unique index (it passed the
\* pre-check, a concurrent call with the same key inserted first) leaves exactly one
\* row with that key, signals ConflictException and hands over the stored row with
\* the original payload.
C3_ConcurrentCreate ==
    [][\A c \in CallIds :
          (calls[c].pc = "save" /\ calls'[c].pc = "done")
          => /\ Cardinality(RowsWithKey(store', Key(c))) = 1
             /\ calls'[c].outcome = "ConflictException"
             /\ \E i \in FindByKey(Key(c)) : calls'[c].submissions = <<store[i]>>]_vars

\* C4: createSubmission with a key that already has a row signals a conflict and
\* returns the existing row; no row is changed or added and no job is enqueued.
C4_ConflictReturnsExisting ==
    [][\A c \in CallIds :
          (/\ calls[c].op = "createSubmission"
           /\ calls[c].pc = "findOne"
           /\ FindByKey(Key(c)) # {}
           /\ calls'[c] # calls[c])
          => /\ calls'[c].outcome = "ConflictException"
             /\ store' = store
             /\ queue' = queue
             /\ \E i \in FindByKey(Key(c)) : calls'[c].submissions = <<store[i]>>]_vars

\* C5: a createSubmission that returns has stored exactly one new row for its request,
\* Pending with retryCount 0 and maxRetries 3, has enqueued exactly one submit-single
\* job carrying that row's id, and returns that row; a createSubmission that does not
\* return was called with a key that another request's row holds.
C5_CreateNew ==
    \A c \in CallIds :
        (calls[c].op = "createSubmission" /\ calls[c].pc = "done")
        => LET dto == calls[c].dtos[1]
               mine == {i \in Ids : store[i].payload = dto.payload}
           IN  IF calls[c].outcome = "returned"
               THEN /\ Len(calls[c].submissions) = 1
                    /\ Cardinality(mine) = 1
                    /\ \A i \in mine :
                          /\ calls[c].submissions[1] = store[i]
                          /\ store[i].idempotencyKey = dto.idempotencyKey
                          /\ store[i].status = PENDING
                          /\ store[i].retryCount = 0
                          /\ store[i].maxRetries = 3
                          /\ store[i].transactionHash = NoHash
                          /\ Cardinality({j \in JobIds : queue[j].name = "submit-single"
                                                         /\ queue[j].ids = <<i>>}) = 1
                          /\ \A j \in JobIds :
                                (\E k \in 1..Len(queue[j].ids) : queue[j].ids[k] = i)
                                => queue[j].name = "submit-single"
               ELSE /\ mine = {}
                    /\ FindByKey(dto.idempotencyKey) # {}

\* a createSubmission returned its new row
C5_Witness ==
    \E c \in CallIds : /\ calls[c].op = "createSubmission"
                       /\ calls[c].outcome = "returned"
                       /\ Len(store) >= 1

\* C6: a submission every delivery attempt of which failed has retryCount equal to the
\* number of failed attempts (at most maxRetries), is Retrying below the ceiling and
\* Failed with retryCount == maxRetries once maxRetries attempts have failed.
C6_RetryCeiling ==
    \A i \in Ids :
        (ledgerFail[i] >= 1 /\ ledgerOk[i] = 0 /\ ~InBatch(i) /\ ~InFlight(i))
        => /\ store[i].retryCount = Min(ledgerFail[i], store[i].maxRetries)
           /\ store[i].status =
                 IF ledgerFail[i] >= store[i].maxRetries THEN FAILED ELSE RETRYING

\* C7: every stored Submission has retryCount <= maxRetries.
C7_RetryBound == \A i \in Ids : store[i].retryCount <= store[i].maxRetries

\* maxRetries single deliveries of one submission have failed and none is running
C7_Witness ==
    \E i \in Ids : /\ ledgerFail[i] >= store[i].maxRetries
                   /\ ~InFlight(i)
                   /\ store[i].retryCount <= store[i].maxRetries

\* C8: once a row is Completed or Failed, no step changes its status,
\* transactionHash or retryCount.
C8_TerminalImmutable ==
    [][\A i \in Ids :
          store[i].status \in Terminal
          => /\ store'[i].status = store[i].status
             /\ store'[i].transactionHash = store[i].transactionHash
             /\ store'[i].retryCount = store[i].retryCount]_vars

\* C9: a row is Completed if and only if its transactionHash is set.
C9_CompletedIffHash ==
    \A i \in Ids : (store[i].status = COMPLETED) <=> (store[i].transactionHash # NoHash)

\* C10: a submit-single handler that loaded a row already Completed or Failed does
\* nothing more: it calls the ledger for no row and changes no row.
C10_DuplicateDeliveryNoOp ==
    [][\A h \in Running :
          (/\ queue[handlers[h].job].name = "submit-single"
           /\ handlers[h].pc = "saveProcessing"
           /\ handlers[h].subs[1].status \in Terminal
           /\ handlers' # handlers
           /\ (h \in DOMAIN handlers' => handlers'[h] # handlers[h]))
          => /\ h \notin DOMAIN handlers'
             /\ store' = store
             /\ ledgerOk' = ledgerOk
             /\ ledgerFail' = ledgerFail]_vars

\* handler h takes a step
Steps(h) == h \in Running /\ (h \notin DOMAIN handlers' \/ handlers'[h] # handlers[h])
\* handler h returns or throws in this step
Ends(h) == h \in Running /\ h \notin DOMAIN handlers'

C12_BatchRaisePropagates ==
    [][\A h \in Running :
          (handlers[h].pc = "submitBatch" /\ handlers[h].subs # <<>> /\ Ends(h))
          => LET j == handlers[h].job
             IN  /\ store' = store
                 /\ ledgerOk' = ledgerOk
                 /\ HoldsLock(h) => /\ queue'[j].attemptsMade = queue[j].attemptsMade + 1
                                    /\ queue'[j].state \in {"failed", "waiting"}
                                    /\ queue'[j].failedReason.text = LedgerError]_vars

\* the batch job over the two Pending rows was failed by a rejected batch while
\* both rows are still as created
C12_Witness ==
    \E j \in JobIds :
        /\ queue[j].name = "submit-batch" /\ queue[j].state = "failed"
        /\ queue[j].failedReason.text = LedgerError
        /\ \A k \in 1..Len(queue[j].ids) :
               /\ store[queue[j].ids[k]].status = PENDING
               /\ store[queue[j].ids[k]].transactionHash = NoHash

\* C13: a createBatch call that has ended has returned, with one Submission per
\* request in request order (the Submission at position i holds request i's key),
\* whether or not a request's key already had a row.
C13_BatchToleratesDuplicates ==
    \A c \in CallIds :
        (calls[c].op = "createBatch" /\ calls[c].pc = "done")
        => /\ calls[c].outcome = "returned"
           /\ Len(calls[c].submissions) = Len(calls[c].dtos)
           /\ \A i \in 1..Len(calls[c].dtos) :
                  calls[c].submissions[i].idempotencyKey = calls[c].dtos[i].idempotencyKey

\* C14: every createBatch call that has ended has enqueued exactly one submit-batch
\* job (there are as many such jobs as ended createBatch calls); the job carries one
\* id per request, in request order, each the id of a stored row holding that
\* request's key and of the Submission returned at that position.
C14_OneBatchJob ==
    /\ Cardinality({j \in JobIds : queue[j].name = "submit-batch"})
         = Cardinality({c \in CallIds : calls[c].op = "createBatch" /\ calls[c].pc = "done"})
    /\ \A c \in CallIds :
           (calls[c].op = "createBatch" /\ calls[c].pc = "done")
           => \E j \in JobIds :
                  /\ queue[j].name = "submit-batch"
                  /\ Len(queue[j].ids) = Len(calls[c].dtos)
                  /\ Len(calls[c].submissions) = Len(calls[c].dtos)
                  /\ \A i \in 1..Len(calls[c].dtos) :
                         /\ queue[j].ids[i] \in Ids
                         /\ queue[j].ids[i] = calls[c].submissions[i].id
                         /\ store[queue[j].ids[i]].idempotencyKey
                              = calls[c].dtos[i].idempotencyKey

\* a submit-single job of row i is still to be delivered or is being handled
Outstanding(i) ==
    \E j \in JobIds : /\ queue[j].name = "submit-single"
                      /\ queue[j].ids = <<i>>
                      /\ queue[j].state \in {"waiting", "active"}

\* C15: a submission whose single delivery the ledger has failed fewer than
\* maxRetries times, and never accepted, is not abandoned: unless it is Completed,
\* a submit-single job for it is waiting for redelivery or being handled (so that
\* fair delivery can bring it to Completed).
C15_RedeliveredAfterFailure ==
    \A i \in Ids :
        (/\ ledgerFail[i] >= 1
         /\ ledgerFail[i] < store[i].maxRetries
         /\ ~InBatch(i)
         /\ store[i].status # COMPLETED)
        => Outstanding(i)

\* the status changes of the state machine
Transitions ==
    {<<PENDING, PROCESSING>>, <<PROCESSING, COMPLETED>>, <<PROCESSING, RETRYING>>,
     <<PROCESSING, FAILED>>, <<RETRYING, PROCESSING>>}

\* C16: a new row is Pending, and every change of a stored row's status is one of
\* Pending->Processing, Processing->Completed, Processing->Retrying,
\* Processing->Failed, Retrying->Processing (so none leaves Completed or Failed).
C16_StateMachine ==
    [][/\ \A i \in Ids :
              store'[i].status # store[i].status
              => <<store[i].status, store'[i].status>> \in Transitions
       /\ \A i \in (1..Len(store')) \ Ids : store'[i].status = PENDING]_vars

\* C17: when the catch block of a submit-single handler runs and the incremented
\* retryCount is below maxRetries, the step stores the row as Retrying with the
\* incremented retryCount and the error message, and the attempt is failed at the
\* queue (counted, for the delivery that holds the lock).
C17_RetryingPersisted ==
    [][\A h \in Running :
          (/\ handlers[h].pc = "catch"
           /\ handlers[h].subs[1].retryCount + 1 < handlers[h].subs[1].maxRetries
           /\ Ends(h))
          => LET sub == handlers[h].subs[1]
                 j   == handlers[h].job
             IN  /\ store'[sub.id].status = RETRYING
                 /\ store'[sub.id].retryCount = sub.retryCount + 1
                 /\ store'[sub.id].errorMessage # NoError
                 /\ HoldsLock(h) => queue'[j].attemptsMade = queue[j].attemptsMade + 1]_vars

\* C18: for a row no handler is working on, the stored retryCount is the number of
\* single deliveries of it that the ledger has failed.
C18_RetryCountCountsFailures ==
    \A i \in Ids : ~InFlight(i) => store[i].retryCount = ledgerFail[i]

\* C19: the delay computed for retryCount = r is 2^r * 1000 ms for every r from 1
\* to maxRetries and grows strictly with r; and the error a failed delivery throws
\* on the retry branch names the delay of the incremented retryCount.
C19_BackoffMonotone ==
    /\ \A r \in 1..DefaultMaxRetries : BackoffDelay(r) = (2 ^ r) * 1000
    /\ \A r \in 1..(DefaultMaxRetries - 1) : BackoffDelay(r) < BackoffDelay(r + 1)
    /\ [][\A h \in Running :
             (/\ handlers[h].pc = "catch"
              /\ handlers[h].subs[1].retryCount + 1 < handlers[h].subs[1].maxRetries
              /\ Ends(h) /\ HoldsLock(h))
             => queue'[handlers[h].job].failedReason.delay
                  = (2 ^ (handlers[h].subs[1].retryCount + 1)) * 1000]_vars

\* a failed delivery has thrown "Retry needed" with the delay of retryCount 1
C19_Witness ==
    \E j \in JobIds :
        /\ queue[j].name = "submit-single"
        /\ queue[j].failedReason.text = "Retry needed with delay"
        /\ queue[j].failedReason.delay = 2000
        /\ ledgerFail[queue[j].ids[1]] >= 1

\* C20: the delivery of a submit-single job whose submissionId has no stored row
\* ends in that step: no handler goes on, no row is added or changed, the ledger
\* is not called, and the job is completed with no attempt counted as failed, so
\* it is not waiting for a redelivery.
C20_UnknownIdDropped ==
    [][\A j \in JobIds :
          (/\ queue[j].name = "submit-single"
           /\ queue[j].state = "waiting"
           /\ queue[j].ids[1] \notin Ids
           /\ queue'[j] # queue[j])
          => /\ store' = store
             /\ ledgerOk' = ledgerOk
             /\ ledgerFail' = ledgerFail
             /\ handlers' = handlers
             /\ queue'[j].state = "completed"
             /\ queue'[j].attemptsMade = queue[j].attemptsMade
             /\ queue'[j].failedReason = NoReason]_vars

\* the job naming a row that is not stored has been delivered and is completed
C20_Witness ==
    \E j \in JobIds :
        /\ queue[j].name = "submit-single"
        /\ queue[j].ids[1] \notin Ids
        /\ queue[j].state = "completed"
        /\ queue[j].owner # 0

\* C21: a getSubmission(id) call returns the row stored under id at that moment
\* when there is one, and throws NotFoundException when no row has that id.
C21_GetSubmission ==
    [][(Len(calls') = Len(calls) + 1 /\ calls'[Len(calls')].op = "getSubmission")
       => LET call == calls'[Len(calls')]
              id   == call.arg[1]
          IN  /\ id \in Ids => /\ call.outcome = "returned"
                               /\ call.submissions = <<store[id]>>
              /\ id \notin Ids => /\ call.outcome = "NotFoundException"
                                  /\ call.submissions = <<>>]_vars

\* both cases of getSubmission have happened: a stored row was returned and an
\* unknown id was answered with NotFoundException
C21_Witness ==
    /\ \E c \in CallIds : /\ calls[c].op = "getSubmission"
                          /\ calls[c].outcome = "returned"
                          /\ calls[c].submissions # <<>>
    /\ \E c \in CallIds : /\ calls[c].op = "getSubmission"
                          /\ calls[c].outcome = "NotFoundException"

\* C22: a getByIdempotencyKey(key) call returns the row stored with that key at
\* that moment when there is one, and throws NotFoundException, rather than
\* returning an empty result, when no row has that key.
C22_GetByKey ==
    [][(Len(calls') = Len(calls) + 1 /\ calls'[Len(calls')].op = "getByIdempotencyKey")
       => LET call == calls'[Len(calls')]
              key  == call.arg[1]
          IN  /\ FindByKey(key) # {} => /\ call.outcome = "returned"
                                        /\ \E i \in FindByKey(key) :
                                               call.submissions = <<store[i]>>
              /\ FindByKey(key) = {} => /\ call.outcome = "NotFoundException"
                                        /\ call.submissions = <<>>]_vars

\* C23: for a row no handler is working on, the stored retryCount equals the
\* number of failed attempts the queue has recorded for the row's submit-single job.
C23_CountersReconcilable ==
    \A j \in JobIds :
        (/\ queue[j].name = "submit-single"
         /\ queue[j].ids[1] \in Ids
         /\ ~InFlight(queue[j].ids[1]))
        => store[queue[j].ids[1]].retryCount = queue[j].attemptsMade

\* C24: every job in the queue was enqueued with an attempt count and a backoff
\* configuration, and a job is failed for good only when its attempt budget is
\* used up.
C24_AttemptsConfigured ==
    \A j \in JobIds :
        /\ {"attempts", "backoff"} \subseteq queue[j].opts
        /\ queue[j].state = "failed" => queue[j].attemptsMade = queue[j].attempts

\* C25: every id carried by a job in the queue, submit-single or submit-batch, is
\* the id of a row in the store: a row is written before a job names it.
C25_WriteBeforeEnqueue ==
    \A j \in JobIds : \A k \in 1..Len(queue[j].ids) : queue[j].ids[k] \in Ids

\* a createBatch over two requests has enqueued its two submit-single jobs and its
\* submit-batch job, all naming stored rows
C25_Witness ==
    /\ \E j \in JobIds : queue[j].name = "submit-batch" /\ Len(queue[j].ids) = 2
                         /\ \A k \in 1..2 : queue[j].ids[k] \in Ids
    /\ \E j \in JobIds : queue[j].name = "submit-single" /\ queue[j].ids[1] \in Ids

\* h is a submit-single handler
Single(h) == h \in Running /\ queue[handlers[h].job].name = "submit-single"

\* C26: a submit-single handler reaches its ledger call only by the step that
\* stores its row as Processing, and every ledger call of the single path (an
\* acceptance or a failure counted for a row outside a batch step) is made by a
\* handler that has done that step; the step itself makes no ledger call.
C26_ProcessingBeforeLedger ==
    [][/\ \A h \in DOMAIN handlers' :
              (/\ queue'[handlers'[h].job].name = "submit-single"
               /\ handlers'[h].pc = "submit")
              => /\ Single(h)
                 /\ handlers[h].pc \in {"saveProcessing", "submit"}
                 /\ handlers[h].pc = "saveProcessing"
                      => /\ store'[handlers[h].subs[1].id].status = PROCESSING
                         /\ ledgerOk' = ledgerOk /\ ledgerFail' = ledgerFail
       /\ \A h \in Running :
              (Single(h) /\ Steps(h) /\ (ledgerOk' # ledgerOk \/ ledgerFail' # ledgerFail))
              => /\ handlers[h].pc = "submit"
                 /\ handlers[h].subs[1].status = PROCESSING]_vars

\* a submit-single handler has had its ledger call answered while the row it
\* stored as Processing is still so
C26_Witness ==
    \E h \in Running :
        /\ Single(h)
        /\ handlers[h].pc \in {"saveCompleted", "catch"}
        /\ store[handlers[h].subs[1].id].status = PROCESSING
        /\ ledgerOk[handlers[h].subs[1].id] + ledgerFail[handlers[h].subs[1].id] >= 1

\* C27: no step of the service or of the processor removes a stored row or changes
\* the id, idempotencyKey, payload or maxRetries of one.
C27_ImmutableFields ==
    [][/\ Len(store') >= Len(store)
       /\ \A i \in Ids :
              /\ store'[i].id = store[i].id
              /\ store'[i].idempotencyKey = store[i].idempotencyKey
              /\ store'[i].payload = store[i].payload
              /\ store'[i].maxRetries = store[i].maxRetries]_vars

\* the rows of a batch have been written by the service, by the submit-batch
\* handler (one Completed, one Failed) and then by a submit-single handler, which
\* stored the Failed row as Processing
C27_Witness ==
    /\ Len(store) = 2
    /\ \E i \in Ids : store[i].status = COMPLETED /\ store[i].transactionHash # NoHash
    /\ \E i \in Ids : store[i].status = PROCESSING /\ store[i].errorMessage = BatchError

\* C28: every stored row whose status is Retrying or Failed has an errorMessage.
C28_ErrorMessagePresent ==
    \A i \in Ids : store[i].status \in {RETRYING, FAILED} => store[i].errorMessage # NoError

\* a row is stored as Failed, with the message its batch gave it
C28_Witness ==
    \E i \in Ids : store[i].status = FAILED /\ store[i].errorMessage = BatchError

\* the request of a createSubmission call has an empty idempotencyKey
EmptyKeyCall(c) ==
    calls[c].op = "createSubmission" /\ calls[c].dtos[1].idempotencyKey = EmptyKey

\* C29: a createSubmission call with an empty idempotencyKey does not return a
\* Submission, no row is stored with the empty key and no job is enqueued for one.
C29_EmptyKeyRejected ==
    /\ \A c \in CallIds : EmptyKeyCall(c) => calls[c].outcome # "returned"
    /\ RowsWithKey(store, EmptyKey) = {}
    /\ \A j \in JobIds : \A k \in 1..Len(queue[j].ids) :
           queue[j].ids[k] \in Ids => store[queue[j].ids[k]].idempotencyKey # EmptyKey

\* h is a submit-batch handler
Batch(h) == h \in Running /\ queue[handlers[h].job].name = "submit-batch"

\* C30: a submit-batch handler has loaded all the rows its job names, holds them
\* (and so sends their payloads and applies the outcomes) in the order of the job's
\* submissionIds: the entity at position i is the row with the i-th id.
C30_BatchOrder ==
    \A h \in Running :
        Batch(h) => /\ Len(handlers[h].subs) = Len(queue[handlers[h].job].ids)
                    /\ \A i \in 1..Len(handlers[h].subs) :
                           handlers[h].subs[i].id = queue[handlers[h].job].ids[i]

\* call c of createSubmission or createBatch takes a step
CreateStep(c) ==
    /\ c \in CallIds
    /\ calls[c].op \in {"createSubmission", "createBatch"}
    /\ calls'[c] # calls[c]

\* C31: no step of a createSubmission or createBatch call invokes the ledger or
\* starts a handler; a step changes no stored row and stores at most one new row,
\* which is Pending with no hash; and a call that returns hands back its
\* Submissions as they were stored, Pending, each stored and named by a job.
C31_CreateDoesNotSubmit ==
    [][\A c \in CallIds :
          CreateStep(c)
          => /\ \A i \in Ids : /\ ledgerOk'[i] = ledgerOk[i]
                               /\ ledgerFail'[i] = ledgerFail[i]
                               /\ store'[i] = store[i]
             /\ handlers' = handlers
             /\ Len(store') <= Len(store) + 1
             /\ \A i \in (1..Len(store')) \ Ids :
                    /\ store'[i].status = PENDING
                    /\ store'[i].transactionHash = NoHash
                    /\ ledgerOk'[i] = 0 /\ ledgerFail'[i] = 0
             /\ (calls'[c].pc = "done" /\ calls'[c].outcome = "returned")
                => \A k \in 1..Len(calls'[c].submissions) :
                       LET sub == calls'[c].submissions[k]
                       IN  /\ sub.status = PENDING
                           /\ sub.id \in 1..Len(store')
                           /\ \E j \in 1..Len(queue') :
                                  /\ queue'[j].name = "submit-single"
                                  /\ queue'[j].ids = <<sub.id>>]_vars

\* a createSubmission call and a createBatch call have both returned while the
\* rows they stored are Pending, their jobs wait and the ledger has not been called
C31_Witness ==
    /\ \E c \in CallIds : calls[c].op = "createSubmission" /\ calls[c].outcome = "returned"
    /\ \E c \in CallIds : /\ calls[c].op = "createBatch" /\ calls[c].outcome = "returned"
                          /\ calls[c].submissions # <<>>
    /\ \A i \in Ids : store[i].status = PENDING /\ ledgerOk[i] = 0 /\ ledgerFail[i] = 0
    /\ \A j \in JobIds : queue[j].state = "waiting"

\* a read call is made in this step
ReadStep ==
    /\ Len(calls') = Len(calls) + 1
    /\ calls'[Len(calls')].op \in {"getSubmission", "getByIdempotencyKey", "listSubmissions"}

\* C32: a getSubmission, getByIdempotencyKey or listSubmissions call, whether it
\* returns or throws, changes no stored row, adds no row, enqueues and changes no
\* job, starts no handler and does not call the ledger.
C32_PureReads ==
    [][ReadStep => /\ store' = store
                   /\ queue' = queue
                   /\ handlers' = handlers
                   /\ ledgerOk' = ledgerOk
                   /\ ledgerFail' = ledgerFail
                   /\ \A c \in CallIds : calls'[c] = calls[c]]_vars

\* reads of the three kinds have been made on a store that holds rows and a queue
\* that holds jobs: one returned rows, one threw NotFoundException
C32_Witness ==
    /\ Len(store) >= 1 /\ Len(queue) >= 1
    /\ \E c \in CallIds : calls[c].op = "listSubmissions" /\ calls[c].submissions # <<>>
    /\ \E c \in CallIds : calls[c].op = "getSubmission"
                          /\ calls[c].outcome = "NotFoundException"

\* the submit-single job of row i has been enqueued
Enqueued(i) == \E j \in JobIds : queue[j].name = "submit-single" /\ queue[j].ids = <<i>>

\* a job naming row i is waiting or active
Referenced(i) ==
    \E j \in JobIds : /\ queue[j].state \in {"waiting", "active"}
                      /\ \E k \in 1..Len(queue[j].ids) : queue[j].ids[k] = i

\* C33: a stored row whose job has been enqueued and that no waiting or active job
\* names is Completed or Failed (the time between the insert of a row and the
\* enqueue of its job is left out).
C33_NoStranded ==
    \A i \in Ids : (Enqueued(i) /\ ~Referenced(i)) => store[i].status \in Terminal

\* C34: in a submit-single handler, a rejected store write (the save of Processing,
\* or the save of the Completed outcome after the ledger accepted) is not handled
\* as a delivery failure: the step that ends the handler after such a write leaves
\* the row's retryCount and status as stored, marks it neither Retrying nor Failed,
\* and does not ask the queue for a retry of the delivery.
C34_StoreFailureNotDelivery ==
    [][\A h \in Running :
          (Single(h) /\ handlers[h].pc = "catch" /\ handlers[h].error = StoreError
             /\ Ends(h))
          => LET j  == handlers[h].job
                 id == handlers[h].subs[1].id
             IN  /\ store'[id].retryCount = store[id].retryCount
                 /\ store'[id].status \notin {RETRYING, FAILED} \/ store'[id] = store[id]
                 /\ HoldsLock(h) => /\ queue'[j].state # "waiting"
                                    /\ queue'[j].failedReason.text
                                         # RetryNeeded(handlers[h].subs[1]).text]_vars


NotCreatedBatch == ~CreatedBatch
====
